---------------------------- MODULE Spec2Model ----------------------------
(***************************************************************************)
(* Model of BrowserInteractionAgent (src/browserInteraction):               *)
(* the descriptor store, the secret store, the locator strategy generator, *)
(* the resolver's retry loop and the command executor.                     *)
(*                                                                         *)
(* Conventions.                                                            *)
(*  - A Python str is a sequence of atoms.  An atom is a TLA+ string: one  *)
(*    character, or a literal chunk of a message none of whose characters  *)
(*    takes part in any substring test or replacement of the program.      *)
(*  - Optional[T] is a sequence of length at most one: None == << >>,      *)
(*    Some(x) == <<x>>.                                                    *)
(*  - Enum members are TLA+ strings holding the member's name.             *)
(*  - Time is in whole seconds.  Calls into the page, the perception       *)
(*    callback and time.sleep advance the clock; reading the cached        *)
(*    page.url property and local computation do not.                      *)
(***************************************************************************)
EXTENDS Integers, Sequences, FiniteSets, TLC

VARIABLES
    element_map,              \* self.element_map: element_id -> DistilledElement
    secrets,                  \* self._secrets, in insertion order: <<[key, val], ...>>
    pageUrl,                  \* the value page.url currently reads
    now,                      \* time.time()
    pc,                       \* position inside execute_command
    command,                  \* the BrowserCommand being executed
    deadline,                 \* execute_command: deadline
    initial_url,              \* execute_command: initial_url
    attempt,                  \* _resolve_locator_with_retries: attempt
    found_ambiguous,          \* _resolve_locator_with_retries: found_ambiguous
    last_ambiguous_selector,  \* _resolve_locator_with_retries: last_ambiguous_selector
    strategies,               \* the strategies of the current pass
    idx,                      \* index of the strategy the for loop is at
    resolved,                 \* (strategy, locator, error) returned by the resolver
    result,                   \* the InteractionResult returned (Optional)
    obs,                      \* log of the calls made during the current command
    history                   \* what earlier calls did, kept for comparison (a
                              \* specification chooses what it records)

vars == <<element_map, secrets, pageUrl, now, pc, command, deadline, initial_url,
          attempt, found_ambiguous, last_ambiguous_selector, strategies, idx,
          resolved, result, obs, history>>

-----------------------------------------------------------------------------
(* Bounds of the model *)

MaxLatency == 18         \* longest time one call into the page or perception takes
MaxSnapshot == 2         \* longest list the perception callback returns
MaxSecrets == 2          \* most entries the secret store holds

(* Program constants *)

TimeoutBudget == 20      \* timeout_budget
\* Mutant: one more backoff entry, which allows a fourth retry.
Backoffs_Longer == <<1, 2, 4, 8>>

Backoffs == <<1, 2, 4>>  \* backoffs
SettleTimeoutMs == 2000  \* wait_for_load_state timeout

-----------------------------------------------------------------------------
(* Optional values and strings *)

None == << >>
Some(x) == <<x>>
IsNone(o) == o = None
Get(o) == o[1]

\* Python truthiness of an Optional[str]: None and "" are falsy
Falsy(o) == o = None \/ Get(o) = << >>

Max(a, b) == IF a >= b THEN a ELSE b

\* needle in hay (Python's substring test on str)
Contains(needle, hay) ==
    \E i \in 1..(Len(hay) - Len(needle) + 1) :
        SubSeq(hay, i, i + Len(needle) - 1) = needle

\* s.replace(old, new): leftmost non-overlapping occurrences
RECURSIVE Replace(_, _, _)
Replace(s, old, new) ==
    IF old = << >>
    THEN IF s = << >> THEN new
         ELSE new \o <<s[1]>> \o Replace(Tail(s), old, new)
    ELSE IF Len(s) < Len(old) THEN s
    ELSE IF SubSeq(s, 1, Len(old)) = old
         THEN new \o Replace(SubSeq(s, Len(old) + 1, Len(s)), old, new)
         ELSE <<s[1]>> \o Replace(Tail(s), old, new)

Whitespace == {" "}

\* s.strip()
RECURSIVE LStrip(_)
LStrip(s) == IF s # << >> /\ s[1] \in Whitespace THEN LStrip(Tail(s)) ELSE s
RECURSIVE RStrip(_)
RStrip(s) ==
    IF s # << >> /\ s[Len(s)] \in Whitespace THEN RStrip(SubSeq(s, 1, Len(s) - 1)) ELSE s
Strip(s) == RStrip(LStrip(s))

Multiple == <<"m", "u", "l", "t", "i", "p", "l", "e">>

-----------------------------------------------------------------------------
(* browser_types.py *)

ActionType == {"CLICK", "TYPE", "NAVIGATE"}
LocatorStrategy == {"DISTILLED_ID", "TEST_ID", "ARIA_ROLE", "TEXT", "CSS"}
FailureKind == {"TIMEOUT_OR_STUCK", "AMBIGUOUS_LOCATOR", "UNSUPPORTED_SURFACE",
                "SECURITY_BLOCK", "GENERIC_ERROR"}

BrowserCommand(action_type, element_id, text_content, url) ==
    [action_type |-> action_type, element_id |-> element_id,
     text_content |-> text_content, url |-> url]

\* Mutant: the constructor loses failure_kind (it keeps its default, None).
InteractionResult_DropsFailureKind(success, action, element_id, locator_kind, url_after, progress_signal, failure_kind, failure_reason) ==
    [success |-> success, action |-> action, element_id |-> element_id,
     locator_kind |-> locator_kind, url_after |-> url_after,
     progress_signal |-> progress_signal, failure_kind |-> None,
     failure_reason |-> failure_reason, attempted_selectors |-> None]

InteractionResult(success, action, element_id, locator_kind, url_after, progress_signal, failure_kind, failure_reason) ==
    [success |-> success, action |-> action, element_id |-> element_id,
     locator_kind |-> locator_kind, url_after |-> url_after,
     progress_signal |-> progress_signal, failure_kind |-> failure_kind,
     failure_reason |-> failure_reason, attempted_selectors |-> None]

DistilledElement(element_id, tag_name, role, name, text, attributes, selector_hints) ==
    [element_id |-> element_id, tag_name |-> tag_name, role |-> role, name |-> name,
     text |-> text, attributes |-> attributes, selector_hints |-> selector_hints]


-----------------------------------------------------------------------------
(* Locator Strategy Generator: _get_locators_for_distilled_element *)

\* A Locator is the selector text it was built from (what str(loc) shows);
\* building one performs no query.
Locator(parts) == parts

AttrSelector(key, val) == Locator(<<"[", key, "='">> \o val \o <<"']">>)

DictTruthy(o) == o # None /\ DOMAIN Get(o) # {}

\* for key in ['data-mark-id', 'data-element-id', 'id']: ... break
DistilledIdKeys == <<"data-mark-id", "data-element-id", "id">>

\* Mutant: the break is missing, every id attribute present gets a strategy.
DistilledIdStrategies_EveryKey(element) ==
    IF ~DictTruthy(element.attributes) THEN << >>
    ELSE LET attrs == Get(element.attributes)
             found == SelectSeq(DistilledIdKeys, LAMBDA k : k \in DOMAIN attrs)
         IN  [i \in 1..Len(found) |->
                 [strategy |-> "DISTILLED_ID",
                  loc |-> AttrSelector(found[i], attrs[found[i]])]]

DistilledIdStrategies(element) ==
    IF ~DictTruthy(element.attributes) THEN << >>
    ELSE LET attrs == Get(element.attributes)
             found == SelectSeq(DistilledIdKeys, LAMBDA k : k \in DOMAIN attrs)
         IN  IF found = << >> THEN << >>
             ELSE <<[strategy |-> "DISTILLED_ID",
                     loc |-> AttrSelector(found[1], attrs[found[1]])]>>

\* for key in ['data-testid', 'data-test', 'data-qa']: every key present
TestIdKeys == <<"data-testid", "data-test", "data-qa">>
TestIdStrategies(element) ==
    IF ~DictTruthy(element.attributes) THEN << >>
    ELSE LET attrs == Get(element.attributes)
             found == SelectSeq(TestIdKeys, LAMBDA k : k \in DOMAIN attrs)
         IN  [i \in 1..Len(found) |->
                 [strategy |-> "TEST_ID", loc |-> AttrSelector(found[i], attrs[found[i]])]]

\* get_by_role(role, name=name_filter) inside try/except, then the placeholder
\* variant for input and textarea.  roleRaises: get_by_role raised.
AriaRoleStrategies(element, roleRaises) ==
    IF Falsy(element.role) THEN << >>
    ELSE LET name_filter == IF Falsy(element.name) THEN None ELSE element.name
             byRole == IF roleRaises THEN << >>
                       ELSE <<[strategy |-> "ARIA_ROLE",
                               loc |-> Locator(<<"role=">> \o Get(element.role)
                                               \o (IF name_filter = None THEN << >>
                                                   ELSE <<"[name=">> \o Get(name_filter)
                                                        \o <<"]">>))]>>
             byPlaceholder ==
                 IF /\ element.tag_name \in {<<"input">>, <<"textarea">>}
                    /\ DictTruthy(element.attributes)
                    /\ "placeholder" \in DOMAIN Get(element.attributes)
                 THEN <<[strategy |-> "ARIA_ROLE",
                         loc |-> Locator(<<"placeholder=">>
                                         \o Get(element.attributes)["placeholder"])]>>
                 ELSE << >>
         IN  byRole \o byPlaceholder

\* get_by_text(text, exact=True), then locator(tag_name, has_text=text)
TextStrategies(element) ==
    IF element.text # None /\ Len(Strip(Get(element.text))) > 0
    THEN <<[strategy |-> "TEXT",
            loc |-> Locator(<<"text=">> \o Get(element.text) \o <<" exact">>)],
           [strategy |-> "TEXT",
            loc |-> Locator(element.tag_name \o <<" has_text=">> \o Get(element.text))]>>
    ELSE << >>

\* Mutant: the selector hints are filed under TEXT instead of CSS.
CssStrategies_AsText(element) ==
    IF element.selector_hints # None /\ Get(element.selector_hints) # << >>
    THEN LET hints == Get(element.selector_hints)
         IN  [i \in 1..Len(hints) |-> [strategy |-> "TEXT", loc |-> Locator(hints[i])]]
    ELSE << >>

\* for sel in element.selector_hints
CssStrategies(element) ==
    IF element.selector_hints # None /\ Get(element.selector_hints) # << >>
    THEN LET hints == Get(element.selector_hints)
         IN  [i \in 1..Len(hints) |-> [strategy |-> "CSS", loc |-> Locator(hints[i])]]
    ELSE << >>

\* Mutant: the selector hints are tried before the text.
_get_locators_for_distilled_element_CssBeforeText(element, roleRaises) ==
    DistilledIdStrategies(element) \o TestIdStrategies(element)
        \o AriaRoleStrategies(element, roleRaises) \o CssStrategies(element)
        \o TextStrategies(element)

\* Mutant: after a failed pass the selector hints are tried first.
_get_locators_for_distilled_element_HintsFirstOnRetry(element, roleRaises) ==
    IF attempt > 0
    THEN CssStrategies(element) \o DistilledIdStrategies(element)
             \o TestIdStrategies(element) \o AriaRoleStrategies(element, roleRaises)
             \o TextStrategies(element)
    ELSE DistilledIdStrategies(element) \o TestIdStrategies(element)
             \o AriaRoleStrategies(element, roleRaises) \o TextStrategies(element)
             \o CssStrategies(element)

_get_locators_for_distilled_element(element, roleRaises) ==
    DistilledIdStrategies(element) \o TestIdStrategies(element)
        \o AriaRoleStrategies(element, roleRaises) \o TextStrategies(element)
        \o CssStrategies(element)

\* The locator constructors called outside any try: every one but get_by_role.
UnguardedConstructions(element) == Len(_get_locators_for_distilled_element(element, TRUE))

-----------------------------------------------------------------------------
(* Inputs: the values the environment supplies *)

E1 == <<"e", "1">>
M1 == Multiple \o <<"1">>

\* one CSS hint and nothing else
BodyCss == [tag_name |-> <<"button">>, role |-> None, name |-> None, text |-> None,
            attributes |-> None, selector_hints |-> Some(<< <<".btn">> >>)]
\* an id attribute, a role with a name, and one CSS hint
BodyMid == [tag_name |-> <<"button">>, role |-> Some(<<"button">>),
            name |-> Some(<<"O", "K">>), text |-> None,
            attributes |-> Some([k \in {"id"} |-> <<"go">>]),
            selector_hints |-> Some(<< <<"#go">> >>)]
\* nothing to locate by: whitespace text, empty hints
BodyBare == [tag_name |-> <<"div">>, role |-> None, name |-> None,
             text |-> Some(<<" ">>), attributes |-> None,
             selector_hints |-> Some(<< >>)]
Bodies == {BodyCss, BodyMid, BodyBare}

Element(id, b) ==
    DistilledElement(id, b.tag_name, b.role, b.name, b.text, b.attributes,
                     b.selector_hints)

\* What perception can report: e1 in three shapes.  M1 is an id that commands
\* name and perception never reports.
Elements == {Element(E1, b) : b \in Bodies}
CommandIds == {E1, M1}

\* The lists perception_callback can return
SnapshotsOf(elements) == UNION {[1..n -> elements] : n \in 0..MaxSnapshot}
Snapshots == SnapshotsOf(Elements)

Urls == {<<"u0">>, <<"u1">>}

PlaceholderA == <<"{", "{", "A", "}", "}">>
PlaceholderB == <<"{", "{", "B", "}", "}">>
Placeholders == {PlaceholderA}
SecretValues == {<<"s">>}
Texts == {<< >>, PlaceholderA}

OptionalIds == {None, Some(<< >>)} \cup {Some(i) : i \in CommandIds}

Commands ==
    {BrowserCommand("CLICK", e, None, None) : e \in OptionalIds}
    \cup {BrowserCommand("TYPE", e, t, None) :
            e \in OptionalIds, t \in {None} \cup {Some(x) : x \in Texts}}
    \cup {BrowserCommand("NAVIGATE", None, None, u) :
            u \in {None, Some(<< >>)} \cup {Some(x) : x \in Urls}}
    \cup {BrowserCommand("OTHER", None, None, None)}

Latencies == {0, MaxLatency}

-----------------------------------------------------------------------------
(* Stores *)

\* Mutant: self.element_map.update(...), which keeps the ids the new snapshot
\* lacks.
MapOf_Merging(elements) ==
    LET ids == {elements[i].element_id : i \in 1..Len(elements)}
        last(id) == CHOOSE i \in 1..Len(elements) :
                        /\ elements[i].element_id = id
                        /\ \A j \in (i + 1)..Len(elements) : elements[j].element_id # id
    IN  [id \in ids \cup DOMAIN element_map |->
            IF id \in ids THEN elements[last(id)] ELSE element_map[id]]

\* {el.element_id: el for el in elements}: a later element of the same id wins
MapOf(elements) ==
    LET ids == {elements[i].element_id : i \in 1..Len(elements)}
        last(id) == CHOOSE i \in 1..Len(elements) :
                        /\ elements[i].element_id = id
                        /\ \A j \in (i + 1)..Len(elements) : elements[j].element_id # id
    IN  [id \in ids |-> elements[last(id)]]

\* Mutant: the lookup after the refresh is forgotten, the descriptor is the
\* one of the store as it was.
MapGet_Stale(map, element_id) ==
    IF element_id \in DOMAIN element_map THEN Some(element_map[element_id]) ELSE None

\* self.element_map.get(element_id)
MapGet(map, element_id) ==
    IF element_id \in DOMAIN map THEN Some(map[element_id]) ELSE None

\* self._secrets[placeholder] = real_value: a new key is appended, an existing
\* key keeps its place
SecretsSet(store, placeholder, real_value) ==
    IF \E i \in 1..Len(store) : store[i].key = placeholder
    THEN [i \in 1..Len(store) |->
             IF store[i].key = placeholder
             THEN [key |-> placeholder, val |-> real_value] ELSE store[i]]
    ELSE Append(store, [key |-> placeholder, val |-> real_value])

\* for key, val in self._secrets.items(): if key in text: text = text.replace(key, val)
RECURSIVE SubstituteSecrets(_, _)
SubstituteSecrets(text, store) ==
    IF store = << >> THEN [text |-> text, is_secret |-> FALSE]
    ELSE LET hit  == Contains(store[1].key, text)
             rest == SubstituteSecrets(
                         IF hit THEN Replace(text, store[1].key, store[1].val) ELSE text,
                         Tail(store))
         IN  [text |-> rest.text, is_secret |-> hit \/ rest.is_secret]

-----------------------------------------------------------------------------
(* Messages *)

MsgNotFound(element_id) ==
    <<"Element ID ">> \o element_id \o <<" not found in perception map.">>
MsgAmbiguous(selector) ==
    <<"Ambiguous locator found (matches ">> \o Multiple \o <<" elements): ">> \o selector
MsgUnresolved == <<"Could not resolve valid locator after retries.">>
MsgUnexpected(e) == <<"Unexpected error: ">> \o e

\* str(e) of the exceptions the page and the callback raise
ExcText == <<"boom">>
UrlExcText == <<"url unavailable">>

\* str(e) of an exception fill raises: the page chooses the message, and the
\* message may quote the text fill was asked to enter
FillExcTexts(text) == {ExcText, <<"fill(">> \o text \o <<") failed">>}

\* "multiple" in (error or "")
IndicatesMultiplicity(error) ==
    Contains(Multiple, IF error = None THEN << >> ELSE Get(error))

\* failure_kind of a Click whose resolution failed
ClickResolutionFailureKind(error) ==
    IF IndicatesMultiplicity(error) THEN "AMBIGUOUS_LOCATOR" ELSE "TIMEOUT_OR_STUCK"

\* Mutant: a Type whose element cannot be resolved is filed under a reserved kind.
TypeResolutionFailureKind_Unsupported(error) == "UNSUPPORTED_SURFACE"

\* failure_kind of a Type whose resolution failed
TypeResolutionFailureKind(error) == "TIMEOUT_OR_STUCK"

\* the resolver's return after the while loop
TerminalError(ambiguous, selector) ==
    IF ambiguous THEN MsgAmbiguous(selector) ELSE MsgUnresolved

\* Mutant: the action gets a fresh budget instead of what is left of it.
RemainingMs_FreshBudget(dl, t) == TimeoutBudget * 1000

\* max(0, (deadline - time.time()) * 1000)
RemainingMs(dl, t) == Max(0, (dl - t) * 1000)

-----------------------------------------------------------------------------
(* State *)

NoObs ==
    [refreshes |-> 0,         \* perception_callback calls
     sleeps |-> << >>,        \* the time.sleep arguments, in order
     passes |-> 0,            \* walks of a strategy list started
     saw_many |-> FALSE,      \* some probe counted more than one match
     saw_miss |-> FALSE,      \* some probe counted 0, found its one match
                              \* hidden, or raised
     clicks |-> 0, fills |-> 0, gotos |-> 0,
     timeout_ms |-> None,     \* timeout passed to click, fill or goto
     filled |-> None,         \* text passed to fill
     action_raised |-> FALSE, \* click, fill or goto raised
     action_timed_out |-> FALSE, \* ... and what it raised was a timeout
     perception_raised |-> FALSE,
     construction_raised |-> FALSE,
     role_raised |-> FALSE,   \* get_by_role raised in the latest pass
     settle_raised |-> FALSE, \* wait_for_load_state raised
     url_raised |-> FALSE,    \* some read of page.url raised
     store_changed |-> FALSE] \* element_map was given a different value

NoResolution == [strategy |-> None, locator |-> None, error |-> None]

NoHistory == [resolution |-> None, snapshot |-> None, answers |-> << >>,
              last_many |-> None, delivery |-> None]

Idle ==
    /\ pc = "idle" /\ command = None /\ now = 0 /\ deadline = 0
    /\ initial_url = None /\ attempt = 0 /\ found_ambiguous = FALSE
    /\ last_ambiguous_selector = None /\ strategies = << >> /\ idx = 0
    /\ resolved = NoResolution /\ result = None /\ obs = NoObs

Init ==
    /\ element_map \in {MapOf(s) : s \in Snapshots}
    /\ secrets = << >>
    /\ pageUrl \in Urls
    /\ history = NoHistory
    /\ Idle

-----------------------------------------------------------------------------
(* How a step of execute_command ends *)

resolverVars == <<attempt, found_ambiguous, last_ambiguous_selector, strategies, idx>>

\* return InteractionResult(...)
Finish(r, o) == pc' = "done" /\ result' = Some(r) /\ obs' = o

\* an exception leaves execute_command
Escape(o) == pc' = "raised" /\ result' = None /\ obs' = o

\* the step goes on inside execute_command
Goto(label, o) == pc' = label /\ result' = None /\ obs' = o

\* except Exception as e (the outer handler): its own read of page.url may raise
OuterExcept(e, o, url) ==
    \/ Finish(InteractionResult(FALSE, Get(command).action_type, None, None, Some(url),
                                None, Some("GENERIC_ERROR"), Some(MsgUnexpected(e))), o)
    \/ Escape([o EXCEPT !.url_raised = TRUE])

\* return InteractionResult(..., url_after=self.page.url, ...) inside the outer try
\* (r is the result but for url_after)
ReturnWithUrl(r, o, url) ==
    \/ Finish([r EXCEPT !.url_after = Some(url)], o)
    \/ OuterExcept(UrlExcText, [o EXCEPT !.url_raised = TRUE], url)

-----------------------------------------------------------------------------
(* Public operations other than execute_command *)

register_secret(placeholder, real_value) ==
    /\ pc = "idle"
    /\ LET store == SecretsSet(secrets, placeholder, real_value)
       IN  /\ Len(store) <= MaxSecrets
           /\ store # secrets
           /\ secrets' = store
    /\ UNCHANGED <<element_map, pageUrl, now, pc, command, deadline, initial_url,
                   resolverVars, resolved, result, obs>>

update_map(elements) ==
    /\ pc = "idle"
    /\ element_map' = MapOf(elements)
    /\ element_map' # element_map
    /\ UNCHANGED <<secrets, pageUrl, now, pc, command, deadline, initial_url,
                   resolverVars, resolved, result, obs>>

-----------------------------------------------------------------------------
(* execute_command *)

\* Mutant: "if command.element_id is None", which lets the empty id through.
MissingClickId_OnlyNone(c) == c.element_id = None

\* line 184: if not command.element_id
MissingClickId(c) == Falsy(c.element_id)

\* Mutant: "not command.text_content", which rejects the empty text too.
MissingTypeArgs_EmptyText(c) == Falsy(c.element_id) \/ Falsy(c.text_content)

\* line 233: if not command.element_id or command.text_content is None
MissingTypeArgs(c) == Falsy(c.element_id) \/ c.text_content = None

\* Mutant: "if command.url is None", which lets the empty url through.
MissingUrl_OnlyNone(c) == c.url = None

\* line 276: if not command.url
MissingUrl(c) == Falsy(c.url)

\* lines 175-186, 232-236, 275-277, 297: entry and dispatch
execute_command(c) ==
    /\ pc = "idle"
    /\ command' = Some(c)
    /\ deadline' = now + TimeoutBudget
    /\ UNCHANGED <<element_map, secrets, pageUrl, now, resolverVars, resolved>>
    /\ \/ \* initial_url = self.page.url raises: the read is outside the try
          /\ initial_url' = None
          /\ Escape([NoObs EXCEPT !.url_raised = TRUE])
       \/ /\ initial_url' = Some(pageUrl)
          /\ CASE c.action_type = "CLICK" ->
                    IF MissingClickId(c)
                    THEN Finish(InteractionResult(FALSE, c.action_type, None, None, None,
                                    None, Some("GENERIC_ERROR"),
                                    Some(<<"Missing element_id">>)), NoObs)
                    ELSE Goto("while", NoObs)
               [] c.action_type = "TYPE" ->
                    IF MissingTypeArgs(c)
                    THEN Finish(InteractionResult(FALSE, c.action_type, None, None, None,
                                    None, Some("GENERIC_ERROR"),
                                    Some(<<"Missing id or text">>)), NoObs)
                    ELSE Goto("while", NoObs)
               [] c.action_type = "NAVIGATE" ->
                    IF MissingUrl(c)
                    THEN Finish(InteractionResult(FALSE, c.action_type, None, None, None,
                                    None, Some("GENERIC_ERROR"), Some(<<"Missing URL">>)),
                                NoObs)
                    ELSE Goto("goto", NoObs)
               [] OTHER ->
                    Finish(InteractionResult(FALSE, c.action_type, None, None, None, None,
                               Some("GENERIC_ERROR"), Some(<<"Unknown command">>)), NoObs)

\* lines 170-173: the resolver's return after the while loop
ExitLoop(o) ==
    /\ resolved' = [strategy |-> None, locator |-> None,
                    error |-> Some(TerminalError(found_ambiguous',
                                     IF last_ambiguous_selector' = None THEN <<"None">>
                                     ELSE Get(last_ambiguous_selector')))]
    /\ Goto("resolved", o)

\* line 130: build the strategies of a pass and enter the for loop.  A locator
\* constructor outside the generator's try may raise; the exception reaches the
\* outer handler of execute_command.
StartPass(element, o, url) ==
    \E roleRaises \in BOOLEAN, constructionRaises \in BOOLEAN :
        IF constructionRaises /\ UnguardedConstructions(element) > 0
        THEN /\ UNCHANGED <<strategies, idx>>
             /\ OuterExcept(ExcText, [o EXCEPT !.construction_raised = TRUE], url)
        ELSE /\ ~constructionRaises
             /\ strategies' = _get_locators_for_distilled_element(element, roleRaises)
             /\ idx' = 1
             /\ Goto("probe", [o EXCEPT !.passes = @ + 1,
                                         !.role_raised = roleRaises /\ ~Falsy(element.role)])

\* lines 118-121, 129-130: the loop test and the descriptor lookup
resolve_while ==
    /\ pc = "while"
    /\ UNCHANGED <<element_map, secrets, pageUrl, now, command, deadline, initial_url,
                   attempt, found_ambiguous, last_ambiguous_selector>>
    /\ IF now < deadline
       THEN LET distilled == MapGet(element_map, Get(Get(command).element_id))
            IN  IF distilled = None
                THEN /\ Goto("refresh", obs)
                     /\ UNCHANGED <<strategies, idx, resolved>>
                ELSE /\ StartPass(Get(distilled), obs, pageUrl)
                     /\ UNCHANGED resolved
       ELSE /\ ExitLoop(obs)
            /\ UNCHANGED <<strategies, idx>>

\* lines 122-127: the id is absent, refresh the map once and look again
resolve_refresh_missing(perceivable) ==
    /\ pc = "refresh"
    /\ UNCHANGED <<secrets, pageUrl, command, deadline, initial_url,
                   attempt, found_ambiguous, last_ambiguous_selector>>
    /\ \E lat \in Latencies :
        /\ now' = now + lat
        /\ LET o == [obs EXCEPT !.refreshes = @ + 1]
           IN  \/ \* perception_callback raises
                  /\ UNCHANGED <<element_map, strategies, idx, resolved>>
                  /\ OuterExcept(ExcText, [o EXCEPT !.perception_raised = TRUE], pageUrl)
               \/ \E new_elements \in perceivable :
                    /\ element_map' = MapOf(new_elements)
                    /\ LET o2 == [o EXCEPT !.store_changed = @ \/ element_map' # element_map]
                           id == Get(Get(command).element_id)
                           distilled == MapGet(element_map', id)
                       IN  IF distilled = None
                           THEN /\ resolved' = [strategy |-> None, locator |-> None,
                                                error |-> Some(MsgNotFound(id))]
                                /\ UNCHANGED <<strategies, idx>>
                                /\ Goto("resolved", o2)
                           ELSE /\ StartPass(Get(distilled), o2, pageUrl)
                                /\ UNCHANGED resolved

ProbeOutcomes == {"raise", "zero", "many", "hidden", "visible"}

\* Mutant: the visibility check is forgotten, one match is enough.
ProbeReturns_AnyUnique(outcome) == outcome \in {"visible", "hidden"}

\* Mutant: a unique visible match is passed over once an ambiguity was seen.
ProbeReturns_UnlessAmbiguous(outcome) == outcome = "visible" /\ ~found_ambiguous

\* lines 142-151: count == 1 and loc.is_visible()
ProbeReturns(outcome) == outcome = "visible"

\* Mutant: the first ambiguous selector is kept, later ones are dropped.
AmbiguousSelector_FirstWins(previous, outcome, loc) ==
    IF outcome = "many" /\ previous = None THEN Some(loc) ELSE previous

\* Mutant: a probe that raises is filed as an ambiguous one.
AmbiguousSelector_OnRaise(previous, outcome, loc) ==
    IF outcome \in {"many", "raise"} THEN Some(loc) ELSE previous

\* lines 145-148: if count > 1: last_ambiguous_selector = str(loc)
AmbiguousSelector(previous, outcome, loc) ==
    IF outcome = "many" THEN Some(loc) ELSE previous

\* lines 134-154: one iteration of the for loop over the strategies, the page
\* answering the probe with one of outcomes
probe_step(outcomes) ==
    /\ pc = "probe"
    /\ UNCHANGED <<element_map, secrets, pageUrl, command, deadline, initial_url,
                   attempt, strategies>>
    /\ IF idx > Len(strategies) \/ (deadline - now) * 1000 <= 0
       THEN \* the list is exhausted, or: if remaining <= 0: break
            /\ Goto("backoff", obs)
            /\ UNCHANGED <<now, found_ambiguous, last_ambiguous_selector, idx, resolved>>
       ELSE \E lat \in Latencies, outcome \in outcomes :
            LET o == [obs EXCEPT !.saw_many = @ \/ outcome = "many",
                     !.saw_miss = @ \/ outcome \in {"raise", "zero", "hidden"}]
            IN  /\ now' = now + lat
                /\ IF ProbeReturns(outcome)
                   THEN \* count == 1 and loc.is_visible(): return strategy, loc, None
                        /\ resolved' = [strategy |-> Some(strategies[idx].strategy),
                                        locator |-> Some(strategies[idx].loc),
                                        error |-> None]
                        /\ UNCHANGED <<found_ambiguous, last_ambiguous_selector, idx>>
                        /\ Goto("resolved", o)
                   ELSE /\ found_ambiguous' = (found_ambiguous \/ outcome = "many")
                        /\ last_ambiguous_selector' =
                               AmbiguousSelector(last_ambiguous_selector, outcome,
                                                 strategies[idx].loc)
                        /\ idx' = idx + 1
                        /\ UNCHANGED resolved
                        /\ Goto("probe", o)

resolve_probe == probe_step(ProbeOutcomes)

\* Mutant: the test forgets the time the sleep itself takes.
SleepWouldOverrun_NowOnly(t, sleep_time, dl) == t > dl

\* line 162: if time.time() + sleep_time > deadline: break
SleepWouldOverrun(t, sleep_time, dl) == t + sleep_time > dl

\* lines 156-168: the pass failed; count it, sleep the backoff, refresh the map
resolve_backoff(perceivable) ==
    /\ pc = "backoff"
    /\ UNCHANGED <<secrets, pageUrl, command, deadline, initial_url,
                   found_ambiguous, last_ambiguous_selector, strategies, idx>>
    /\ attempt' = attempt + 1
    /\ IF attempt' > Len(Backoffs)
       THEN /\ ExitLoop(obs) /\ UNCHANGED <<element_map, now>>
       ELSE LET sleep_time == Backoffs[attempt']
            IN  IF SleepWouldOverrun(now, sleep_time, deadline)
                THEN /\ ExitLoop(obs) /\ UNCHANGED <<element_map, now>>
                ELSE \E lat \in Latencies :
                     LET o == [obs EXCEPT !.sleeps = Append(@, sleep_time),
                                          !.refreshes = @ + 1]
                     IN  /\ now' = now + sleep_time + lat
                         /\ \/ \* perception_callback raises
                               /\ UNCHANGED <<element_map, resolved>>
                               /\ OuterExcept(ExcText,
                                      [o EXCEPT !.perception_raised = TRUE], pageUrl)
                            \/ \E new_elements \in perceivable :
                                 /\ element_map' = MapOf(new_elements)
                                 /\ UNCHANGED resolved
                                 /\ Goto("while",
                                        [o EXCEPT !.store_changed =
                                                      @ \/ element_map' # element_map])


ActionOutcomes == {"ok", "timeout", "error"}

\* lines 189-197 and 237-243: the resolver returned no locator
resolution_failed ==
    /\ pc = "resolved"
    /\ resolved.locator = None
    /\ UNCHANGED <<element_map, secrets, pageUrl, now, command, deadline, initial_url,
                   resolverVars, resolved>>
    /\ LET c == Get(command)
           kind == IF c.action_type = "CLICK"
                   THEN ClickResolutionFailureKind(resolved.error)
                   ELSE TypeResolutionFailureKind(resolved.error)
       IN  ReturnWithUrl(InteractionResult(FALSE, c.action_type, c.element_id,
                                        None, None, None, Some(kind), resolved.error),
                         obs, pageUrl)

\* Mutant: "except Exception" stands before "except PlaywrightTimeoutError"
\* and takes the timeouts too.
ClickFailureKind_AllGeneric(outcome) == "GENERIC_ERROR"

\* lines 214-225: the failure_kind of the handler that takes a click's exception
ClickFailureKind(outcome) ==
    IF outcome = "timeout" THEN "TIMEOUT_OR_STUCK" ELSE "GENERIC_ERROR"

\* lines 199-225: locator.click(timeout=remaining_ms) and its two handlers
click ==
    /\ pc = "resolved"
    /\ resolved.locator # None
    /\ Get(command).action_type = "CLICK"
    /\ UNCHANGED <<element_map, secrets, command, deadline, initial_url,
                   resolverVars, resolved>>
    /\ \E lat \in Latencies, outcome \in ActionOutcomes, url \in Urls :
        LET c == Get(command)
            o == [obs EXCEPT !.clicks = @ + 1,
                             !.timeout_ms = Some(RemainingMs(deadline, now)),
                             !.action_raised = outcome # "ok",
                             !.action_timed_out = outcome = "timeout"]
        IN  /\ now' = now + lat
            /\ pageUrl' = url
            /\ CASE outcome = "ok" -> Goto("settle", o)
                 [] outcome = "timeout" ->
                      ReturnWithUrl(InteractionResult(FALSE, c.action_type,
                                        c.element_id, resolved.strategy, None, None,
                                        Some(ClickFailureKind(outcome)),
                                        Some(<<"Click timed out">>)), o, url)
                 [] outcome = "error" ->
                      ReturnWithUrl(InteractionResult(FALSE, c.action_type,
                                        c.element_id, resolved.strategy, None, None,
                                        Some(ClickFailureKind(outcome)),
                                        Some(ExcText)), o, url)

\* Mutant: the settle wait has no try of its own, so its exception reaches
\* the handlers of the click.
SettleWaitSurfaces_Unguarded(waitRaises) == waitRaises

\* lines 209-212: try: wait_for_load_state(...) except: pass
SettleWaitSurfaces(waitRaises) == FALSE

\* lines 209-212 and 227-230: the best-effort settle wait, then the success
\* result, which reads page.url for url_after and again for progress_signal
settle ==
    /\ pc = "settle"
    /\ UNCHANGED <<element_map, secrets, command, deadline, initial_url,
                   resolverVars, resolved>>
    /\ \E lat \in {0, SettleTimeoutMs \div 1000}, waitRaises \in BOOLEAN,
          url \in Urls, url2 \in Urls :
        LET c == Get(command)
            o == [obs EXCEPT !.settle_raised = waitRaises]
        IN  /\ now' = now + lat
            /\ pageUrl' = url2
            /\ IF SettleWaitSurfaces(waitRaises)
               THEN ReturnWithUrl(InteractionResult(FALSE, c.action_type, c.element_id,
                                      resolved.strategy, None, None,
                                      Some("GENERIC_ERROR"), Some(ExcText)), o, url2)
               ELSE \/ Finish(InteractionResult(TRUE, c.action_type, c.element_id,
                                  resolved.strategy, Some(url),
                                  Some(IF Some(url2) # initial_url THEN <<"url_change">>
                                       ELSE <<"click_success">>),
                                  None, None), o)
                    \/ OuterExcept(UrlExcText, [o EXCEPT !.url_raised = TRUE], url2)

\* Mutant: the loop takes each secret out of the store as it reads it.
SecretsAfterSubstitution_Consumed(store) == << >>

\* lines 249-252: the loop reads self._secrets.items() and assigns only to the
\* locals text_to_type and is_secret
SecretsAfterSubstitution(store) == store

\* Mutant: "except Exception" in place of "except PlaywrightTimeoutError".
FillHandlerCatches_All(outcome) == outcome # "ok"

\* line 263: except PlaywrightTimeoutError, the only handler of the fill
FillHandlerCatches(outcome) == outcome = "timeout"

\* lines 245-273: substitute the secrets, locator.fill(text_to_type, timeout=remaining_ms)
fill ==
    /\ pc = "resolved"
    /\ resolved.locator # None
    /\ Get(command).action_type = "TYPE"
    /\ secrets' = SecretsAfterSubstitution(secrets)
    /\ UNCHANGED <<element_map, command, deadline, initial_url,
                   resolverVars, resolved>>
    /\ \E lat \in Latencies, outcome \in ActionOutcomes, url \in Urls :
        LET c == Get(command)
            sub == SubstituteSecrets(Get(c.text_content), secrets)
            excTexts == IF outcome = "error" THEN FillExcTexts(sub.text) ELSE {ExcText}
            o == [obs EXCEPT !.fills = @ + 1,
                             !.timeout_ms = Some(RemainingMs(deadline, now)),
                             !.filled = Some(sub.text),
                             !.action_raised = outcome # "ok",
                             !.action_timed_out = outcome = "timeout"]
        IN  /\ now' = now + lat
            /\ pageUrl' = url
            /\ CASE outcome = "ok" ->
                      ReturnWithUrl(InteractionResult(TRUE, c.action_type,
                                        c.element_id, resolved.strategy, None,
                                        Some(<<"input_filled">>), None, None), o, url)
                 [] outcome # "ok" /\ FillHandlerCatches(outcome) ->
                      ReturnWithUrl(InteractionResult(FALSE, c.action_type,
                                        c.element_id, resolved.strategy, None, None,
                                        Some("TIMEOUT_OR_STUCK"),
                                        Some(<<"Type timed out">>)), o, url)
                 [] outcome # "ok" /\ ~FillHandlerCatches(outcome) ->
                      \E e \in excTexts : OuterExcept(e, o, url)

\* What the page does with the timeout it is given: a timeout of 0 turns the
\* timeout off, so a call that stalls is then never ended.
TimeoutDisabled(timeout_ms) == timeout_ms = 0

\* lines 201-204 and 254-256: remaining_ms is 0 (the deadline passed while the
\* resolver probed) and the click or fill stalls: the call does not return
stall ==
    /\ pc = "resolved"
    /\ resolved.locator # None
    /\ Get(command).action_type \in {"CLICK", "TYPE"}
    /\ TimeoutDisabled(RemainingMs(deadline, now))
    /\ UNCHANGED <<element_map, secrets, pageUrl, now, command, deadline, initial_url,
                   resolverVars, resolved>>
    /\ LET c == Get(command)
           o == [obs EXCEPT !.timeout_ms = Some(RemainingMs(deadline, now))]
       IN  IF c.action_type = "CLICK"
           THEN Goto("hung", [o EXCEPT !.clicks = @ + 1])
           ELSE Goto("hung", [o EXCEPT !.fills = @ + 1,
                                       !.filled = Some(SubstituteSecrets(
                                                     Get(c.text_content), secrets).text)])

\* lines 279-289: self.page.goto(command.url, timeout=timeout_budget*1000)
goto ==
    /\ pc = "goto"
    /\ UNCHANGED <<element_map, secrets, command, deadline, initial_url,
                   resolverVars, resolved>>
    /\ \E lat \in Latencies, raises \in BOOLEAN, url \in Urls :
        LET c == Get(command)
            o == [obs EXCEPT !.gotos = @ + 1,
                             !.timeout_ms = Some(TimeoutBudget * 1000),
                             !.action_raised = raises]
        IN  /\ now' = now + lat
            /\ pageUrl' = url
            /\ IF raises
               THEN ReturnWithUrl(InteractionResult(FALSE, c.action_type, None,
                                      None, None, None, Some("GENERIC_ERROR"),
                                      Some(ExcText)), o, url)
               ELSE ReturnWithUrl(InteractionResult(TRUE, c.action_type, None,
                                      None, None, Some(<<"navigation">>), None, None), o, url)

\* execute_command has returned or raised; the caller goes on.  Only elapsed
\* time matters to a command, so the clock restarts at 0.
Return ==
    /\ pc \in {"done", "raised"}
    /\ UNCHANGED <<element_map, secrets, pageUrl>>
    /\ pc' = "idle" /\ command' = None /\ now' = 0 /\ deadline' = 0
    /\ initial_url' = None /\ attempt' = 0 /\ found_ambiguous' = FALSE
    /\ last_ambiguous_selector' = None /\ strategies' = << >> /\ idx' = 0
    /\ resolved' = NoResolution /\ result' = None /\ obs' = NoObs

-----------------------------------------------------------------------------
(* The specification *)

Next ==
    \/ (\E c \in Commands : execute_command(c)) /\ UNCHANGED history
    \/ resolve_while /\ UNCHANGED history
    \/ resolve_refresh_missing(Snapshots) /\ UNCHANGED history
    \/ resolve_probe /\ UNCHANGED history
    \/ resolve_backoff(Snapshots) /\ UNCHANGED history
    \/ resolution_failed /\ UNCHANGED history
    \/ click /\ UNCHANGED history
    \/ stall /\ UNCHANGED history
    \/ settle /\ UNCHANGED history
    \/ fill /\ UNCHANGED history
    \/ goto /\ UNCHANGED history
    \/ Return /\ UNCHANGED history
    \/ (\E elements \in Snapshots : update_map(elements)) /\ UNCHANGED history
    \/ (\E k \in Placeholders, v \in SecretValues : register_secret(k, v)) /\ UNCHANGED history

Spec == Init /\ [][Next]_vars

-----------------------------------------------------------------------------
(* The same program under inputs that exercise the secret store: Type
   commands on e1 with texts that hold placeholders, secrets whose values
   hold placeholders, and a page on which perception always reports e1 with
   its one CSS hint. *)

SecretPlaceholders == {PlaceholderA, PlaceholderB}
SecretValuesRich == {<<"s">>, <<"x">> \o PlaceholderB}
SecretTexts == {PlaceholderA, PlaceholderB \o <<"-">> \o PlaceholderA, <<"h", "i">>}
SecretCommands == {BrowserCommand("TYPE", Some(E1), Some(t), None) : t \in SecretTexts}
SecretSnapshots == {<<Element(E1, BodyCss)>>}

InitSecrets ==
    /\ element_map = MapOf(<<Element(E1, BodyCss)>>)
    /\ secrets = << >>
    /\ pageUrl \in Urls
    /\ history = NoHistory
    /\ Idle

NextSecrets ==
    \/ (\E c \in SecretCommands : execute_command(c)) /\ UNCHANGED history
    \/ resolve_while /\ UNCHANGED history
    \/ resolve_probe /\ UNCHANGED history
    \/ resolve_backoff(SecretSnapshots) /\ UNCHANGED history
    \/ resolution_failed /\ UNCHANGED history
    \/ fill /\ UNCHANGED history
    \/ stall /\ UNCHANGED history
    \/ Return /\ UNCHANGED history
    \/ (\E k \in SecretPlaceholders, v \in SecretValuesRich : register_secret(k, v)) /\ UNCHANGED history

SpecSecrets == InitSecrets /\ [][NextSecrets]_vars

-----------------------------------------------------------------------------
(* The same secrets and Type commands, with agents built anew so that the
   same secrets can be registered in another order, and what the latest fill
   was given kept for the next. *)

\* lines 11-16: a new agent, with an empty store and no secret
__init__ ==
    /\ pc = "idle"
    /\ element_map' = << >> /\ secrets' = << >>
    /\ element_map # << >> \/ secrets # << >>
    /\ UNCHANGED <<pageUrl, now, pc, command, deadline, initial_url,
                   resolverVars, resolved, result, obs>>

\* the (placeholder, value) pairs registered
SecretPairs(store) == {<<store[i].key, store[i].val>> : i \in 1..Len(store)}

\* what a fill was asked and what it was given
DeliveryRecord ==
    [text_content |-> Get(Get(command).text_content), pairs |-> SecretPairs(secrets),
     delivered |-> Get(obs.filled)]

ReturnRecordingDelivery ==
    /\ Return
    /\ history' = IF obs.filled # None
                  THEN [history EXCEPT !.delivery = Some(DeliveryRecord)]
                  ELSE history

\* Type commands whose text is one placeholder
OrderCommands == {BrowserCommand("TYPE", Some(E1), Some(PlaceholderA), None)}

NextOrder ==
    \/ (\E c \in OrderCommands : execute_command(c)) /\ UNCHANGED history
    \/ resolve_while /\ UNCHANGED history
    \/ resolve_refresh_missing(SecretSnapshots) /\ UNCHANGED history
    \/ resolve_probe /\ UNCHANGED history
    \/ resolve_backoff(SecretSnapshots) /\ UNCHANGED history
    \/ resolution_failed /\ UNCHANGED history
    \/ fill /\ UNCHANGED history
    \/ stall /\ UNCHANGED history
    \/ ReturnRecordingDelivery
    \/ (\E k \in SecretPlaceholders, v \in SecretValuesRich : register_secret(k, v)) /\ UNCHANGED history
    \/ __init__ /\ UNCHANGED history

SpecOrder == InitSecrets /\ [][NextOrder]_vars

-----------------------------------------------------------------------------
(* The same program with the outcome of each resolution kept for the next:
   Click commands on e1, the store and the page free to change. *)

ResolveCommands == {BrowserCommand("CLICK", Some(E1), None, None)}
ResolveSnapshots == SnapshotsOf({Element(E1, BodyCss), Element(E1, BodyMid)})

InitResolve ==
    /\ element_map \in {MapOf(s) : s \in ResolveSnapshots}
    /\ secrets = << >>
    /\ pageUrl \in Urls
    /\ history = NoHistory
    /\ Idle

\* what a resolution that returned a locator was asked and what it answered
ResolutionRecord ==
    [element_id |-> Get(Get(command).element_id), store |-> element_map,
     role_raised |-> obs.role_raised, position |-> idx,
     locator_kind |-> Get(resolved.strategy)]

ReturnRecordingResolution ==
    /\ Return
    /\ history' = IF resolved.locator # None
                  THEN [history EXCEPT !.resolution = Some(ResolutionRecord)]
                  ELSE history

NextResolve ==
    \/ (\E c \in ResolveCommands : execute_command(c)) /\ UNCHANGED history
    \/ resolve_while /\ UNCHANGED history
    \/ resolve_refresh_missing(ResolveSnapshots) /\ UNCHANGED history
    \/ resolve_probe /\ UNCHANGED history
    \/ resolve_backoff(ResolveSnapshots) /\ UNCHANGED history
    \/ resolution_failed /\ UNCHANGED history
    \/ click /\ UNCHANGED history
    \/ stall /\ UNCHANGED history
    \/ settle /\ UNCHANGED history
    \/ ReturnRecordingResolution

SpecResolve == InitResolve /\ [][NextResolve]_vars

-----------------------------------------------------------------------------
(* The same program with the snapshot of each store update kept: Click
   commands on e1, a page that reports e1 and e2, and a caller that calls
   update_map between commands. *)

E2 == <<"e", "2">>
StoreSnapshots ==
    SnapshotsOf({Element(E1, BodyCss), Element(E1, BodyBare), Element(E2, BodyCss)})

\* line 14: self.element_map = {}
InitStore ==
    /\ element_map = << >>
    /\ secrets = << >>
    /\ pageUrl \in Urls
    /\ history = NoHistory
    /\ Idle

\* the step called perception_callback and passed what it returned to update_map
Refreshed == obs'.refreshes = obs.refreshes + 1 /\ ~obs'.perception_raised

RecordSnapshot(applied, elements) ==
    history' = IF applied THEN [history EXCEPT !.snapshot = Some(elements)] ELSE history

NextStore ==
    \/ (\E c \in ResolveCommands : execute_command(c)) /\ UNCHANGED history
    \/ resolve_while /\ UNCHANGED history
    \/ \E elements \in StoreSnapshots :
           resolve_refresh_missing({elements}) /\ RecordSnapshot(Refreshed, elements)
    \/ resolve_probe /\ UNCHANGED history
    \/ \E elements \in StoreSnapshots :
           resolve_backoff({elements}) /\ RecordSnapshot(Refreshed, elements)
    \/ resolution_failed /\ UNCHANGED history
    \/ click /\ UNCHANGED history
    \/ stall /\ UNCHANGED history
    \/ settle /\ UNCHANGED history
    \/ Return /\ UNCHANGED history
    \/ \E elements \in StoreSnapshots :
           update_map(elements) /\ RecordSnapshot(TRUE, elements)

SpecStore == InitStore /\ [][NextStore]_vars

-----------------------------------------------------------------------------
(* The same program with the answers of the page to the probes kept: Click
   commands on e1, the answers of the pass under way and the selector of the
   latest probe that matched several elements. *)

\* the step started a pass: line 130 built the strategies anew
PassStarted == obs'.passes = obs.passes + 1

\* the step probed strategies[idx]: lines 142-151 ran
ProbeMade == pc = "probe" /\ (idx' = idx + 1 \/ resolved'.locator # None)

RecordPass ==
    history' = IF PassStarted THEN [history EXCEPT !.answers = << >>] ELSE history

RecordAnswer(outcome) ==
    history' = IF ProbeMade
               THEN [history EXCEPT !.answers = Append(@, outcome),
                                    !.last_many = IF outcome = "many"
                                                  THEN Some(strategies[idx].loc) ELSE @]
               ELSE history

ForgetAnswers == history' = [history EXCEPT !.answers = << >>, !.last_many = None]

NextProbe ==
    \/ (\E c \in ResolveCommands : execute_command(c)) /\ UNCHANGED history
    \/ resolve_while /\ RecordPass
    \/ resolve_refresh_missing(ResolveSnapshots) /\ RecordPass
    \/ \E outcome \in ProbeOutcomes : probe_step({outcome}) /\ RecordAnswer(outcome)
    \/ resolve_backoff(ResolveSnapshots) /\ UNCHANGED history
    \/ resolution_failed /\ ForgetAnswers
    \/ click /\ ForgetAnswers
    \/ stall /\ ForgetAnswers
    \/ settle /\ UNCHANGED history
    \/ Return /\ ForgetAnswers

SpecProbe == InitResolve /\ [][NextProbe]_vars

-----------------------------------------------------------------------------
(* The same program over descriptors of every shape the generator tells
   apart: Click commands on e1, a page that keeps reporting the descriptor
   the store holds. *)

\* the attribute names a descriptor carries: any of the id attributes, any of
\* the test attributes, and some mixtures
IdKeys == {DistilledIdKeys[i] : i \in 1..3}
TestKeys == {TestIdKeys[i] : i \in 1..3}
AttributeKeySets ==
    SUBSET IdKeys \cup SUBSET TestKeys
    \cup {IdKeys \cup TestKeys, {"data-element-id", "id"} \cup TestKeys,
          {"placeholder"}, {"placeholder", "id"}}
GeneratorAttributes ==
    {None} \cup {Some([k \in ks |-> <<"v">>]) : ks \in AttributeKeySets}

\* what a descriptor carries besides its attributes
RestNothing == [tag_name |-> <<"button">>, role |-> None, name |-> None,
                text |-> None, selector_hints |-> None]
RestEverything == [tag_name |-> <<"input">>, role |-> Some(<<"textbox">>),
                   name |-> Some(<<"O", "K">>), text |-> Some(<<"o", "k">>),
                   selector_hints |-> Some(<< <<".b">>, <<".a">> >>)]
RestBlank == [tag_name |-> <<"input">>, role |-> None, name |-> None,
              text |-> Some(<<" ">>), selector_hints |-> Some(<< >>)]
RestButton == [tag_name |-> <<"button">>, role |-> Some(<<"button">>), name |-> None,
               text |-> Some(<<"o", "k">>), selector_hints |-> Some(<< <<".a">> >>)]
Rests == {RestNothing, RestEverything, RestBlank, RestButton}

GeneratorElements ==
    {DistilledElement(E1, r.tag_name, r.role, r.name, r.text, a, r.selector_hints) :
        r \in Rests, a \in GeneratorAttributes}

InitGenerate ==
    /\ element_map \in {MapOf(<<el>>) : el \in GeneratorElements}
    /\ secrets = << >>
    /\ pageUrl = <<"u0">>
    /\ history = NoHistory
    /\ Idle

\* perception reports the stored descriptor again
SamePage == {<<element_map[E1]>>}

NextGenerate ==
    \/ (\E c \in ResolveCommands : execute_command(c)) /\ UNCHANGED history
    \/ resolve_while /\ UNCHANGED history
    \/ probe_step({"zero", "visible"}) /\ UNCHANGED history
    \/ resolve_backoff(SamePage) /\ UNCHANGED history
    \/ resolution_failed /\ UNCHANGED history
    \/ click /\ UNCHANGED history
    \/ stall /\ UNCHANGED history
    \/ settle /\ UNCHANGED history
    \/ Return /\ UNCHANGED history

SpecGenerate == InitGenerate /\ [][NextGenerate]_vars

-----------------------------------------------------------------------------
(* The same program on a page that reports an element whose id holds the
   word "multiple": Click commands on e1 and on that element, probes that
   answer without raising. *)

NamedCommands == {BrowserCommand("CLICK", Some(i), None, None) : i \in CommandIds}
NamedSnapshots == SnapshotsOf({Element(E1, BodyCss), Element(M1, BodyCss)})

InitNamed ==
    /\ element_map \in {MapOf(s) : s \in NamedSnapshots}
    /\ secrets = << >>
    /\ pageUrl \in Urls
    /\ history = NoHistory
    /\ Idle

\* count() and is_visible() return
QuietOutcomes == ProbeOutcomes \ {"raise"}

NextNamed ==
    \/ (\E c \in NamedCommands : execute_command(c)) /\ UNCHANGED history
    \/ resolve_while /\ UNCHANGED history
    \/ resolve_refresh_missing(NamedSnapshots) /\ UNCHANGED history
    \/ probe_step(QuietOutcomes) /\ UNCHANGED history
    \/ resolve_backoff(NamedSnapshots) /\ UNCHANGED history
    \/ resolution_failed /\ UNCHANGED history
    \/ click /\ UNCHANGED history
    \/ stall /\ UNCHANGED history
    \/ settle /\ UNCHANGED history
    \/ Return /\ UNCHANGED history

SpecNamed == InitNamed /\ [][NextNamed]_vars

-----------------------------------------------------------------------------
(* Properties *)

Running == command # None
Cmd == Get(command)
Res == Get(result)
Returned == pc = "done" /\ result # None
Probed == obs.saw_many \/ obs.saw_miss \/ resolved.locator # None
NothingRaised ==
    /\ ~obs.perception_raised /\ ~obs.construction_raised
    /\ ~obs.url_raised /\ ~obs.action_raised

\* C1: in every InteractionResult that execute_command returns, success is
\* true if and only if failure_kind is absent.
C1_SuccessIffNoFailureKind ==
    Returned => (Res.success <=> Res.failure_kind = None)

\* a failed result and a successful one are both returned
C1_Witness ==
    /\ Returned /\ Res.success /\ Res.action = "TYPE" /\ obs.fills = 1

\* C2: no exception leaves execute_command, whichever underlying call raises.
C2_NothingEscapes == pc # "raised"

\* C3: a Click with an element_id whose resolution never finds a unique,
\* visible match (and in which no call raised) ends AMBIGUOUS_LOCATOR when
\* some probe of the command counted more than one match, and
\* TIMEOUT_OR_STUCK when none did.
C3_ClickClassification ==
    (/\ Returned /\ Cmd.action_type = "CLICK" /\ ~Falsy(Cmd.element_id)
     /\ resolved.locator = None /\ NothingRaised)
    => Res.failure_kind = Some(IF obs.saw_many THEN "AMBIGUOUS_LOCATOR"
                               ELSE "TIMEOUT_OR_STUCK")

\* C4: a Type whose resolution fails (and in which no call raised) is
\* classified like a Click: AMBIGUOUS_LOCATOR when some probe counted more
\* than one match, TIMEOUT_OR_STUCK otherwise.
C4_TypeClassification ==
    (/\ Returned /\ Cmd.action_type = "TYPE" /\ ~MissingTypeArgs(Cmd)
     /\ resolved.locator = None /\ NothingRaised)
    => Res.failure_kind = Some(IF obs.saw_many THEN "AMBIGUOUS_LOCATOR"
                               ELSE "TIMEOUT_OR_STUCK")


\* the command passed its entry (the first read of page.url did not raise)
Entered == Running /\ initial_url # None
AfterResolution == pc \in {"resolved", "settle", "done", "raised"}

\* the store holds, for the command's element_id, a descriptor that carries
\* one selector hint and no attribute, role or text
StoredSingleCss ==
    /\ Running /\ ~Falsy(Cmd.element_id)
    /\ Get(Cmd.element_id) \in DOMAIN element_map
    /\ LET el == element_map[Get(Cmd.element_id)]
       IN  /\ el.attributes = None /\ el.role = None /\ el.text = None
           /\ el.selector_hints # None /\ Len(Get(el.selector_hints)) = 1

\* Scenario A, while no refresh has replaced the store the command began
\* with: every probe made found exactly one visible match.
C5_ScenarioA ==
    /\ Entered /\ Cmd.action_type = "CLICK"
    /\ obs.refreshes = 0 /\ StoredSingleCss
    /\ ~obs.saw_many /\ ~obs.saw_miss /\ ~obs.construction_raised

C5_FirstPassSucceeds ==
    (C5_ScenarioA /\ AfterResolution) =>
        /\ resolved.strategy = Some("CSS") /\ resolved.error = None
        /\ obs.passes = 1 /\ obs.sleeps = << >>
        /\ (pc = "done" /\ ~obs.action_raised /\ ~obs.url_raised) =>
               /\ Res.success /\ Res.locator_kind = Some("CSS") /\ obs.clicks = 1

C5_NoRefreshStarts ==
    (C5_ScenarioA /\ command' = command) => obs'.refreshes = 0

\* C5 (Scenario A): when the stored descriptor yields a single CSS strategy
\* and its probe finds exactly one visible element, the resolver returns CSS
\* in its first pass, no backoff sleep and no perception refresh is made, and
\* the Click (whose click call does not raise) succeeds with locator_kind CSS.
C5_ScenarioA_FirstProbe == [](C5_FirstPassSucceeds) /\ [][C5_NoRefreshStarts]_vars

C5_Witness ==
    /\ Returned /\ C5_ScenarioA /\ Res.success /\ Res.locator_kind = Some("CSS")
    /\ obs.passes = 1 /\ obs.sleeps = << >>


\* C6 (Scenario B): when every probe of the command counted two or more
\* matches (and no call raised), the command's result is AMBIGUOUS_LOCATOR.
\* (The claim adds that the result comes only after the backoff sleeps of
\* 1 s, 2 s and 4 s; the formula states the result alone.)
C6_ScenarioB_Ambiguous ==
    (/\ Returned /\ Entered /\ Cmd.action_type \in {"CLICK", "TYPE"}
     /\ obs.saw_many /\ ~obs.saw_miss /\ resolved.locator = None /\ NothingRaised)
    => Res.failure_kind = Some("AMBIGUOUS_LOCATOR")

NoResolutionAttempted ==
    /\ obs.refreshes = 0 /\ obs.passes = 0 /\ ~Probed /\ ~obs.store_changed
    /\ obs.sleeps = << >> /\ now = 0

\* C7 (Scenario C): a Click with no element_id returns at once with
\* GENERIC_ERROR and reason "Missing element_id"; the perception callback is
\* not called, no locator is probed, nothing is clicked and the store is not
\* written.
C7_ClickWithoutId ==
    (Entered /\ Cmd.action_type = "CLICK"
        /\ (Cmd.element_id = None \/ Cmd.element_id = Some(<< >>)))
    => /\ pc = "done"
       /\ result = Some([success |-> FALSE, action |-> "CLICK", element_id |-> None,
                         locator_kind |-> None, url_after |-> None,
                         progress_signal |-> None,
                         failure_kind |-> Some("GENERIC_ERROR"),
                         failure_reason |-> Some(<<"Missing element_id">>),
                         attempted_selectors |-> None])
       /\ NoResolutionAttempted /\ obs.clicks = 0

C7_Witness ==
    /\ Returned /\ Cmd.action_type = "CLICK" /\ Cmd.element_id = Some(<< >>)
    /\ E1 \in DOMAIN element_map

ResolutionAttempted ==
    obs.refreshes > 0 \/ obs.passes > 0 \/ obs.construction_raised

\* C8: a Type is rejected at once with GENERIC_ERROR, with no resolution, no
\* refresh and no fill, exactly when its element_id is missing or its
\* text_content is None; with an element_id and any text, the empty one
\* included, it goes on to resolution.
C8_TypeRejectedIffMissing ==
    (Entered /\ Cmd.action_type = "TYPE")
    => IF Cmd.element_id = None \/ Cmd.element_id = Some(<< >>)
          \/ Cmd.text_content = None
       THEN /\ pc = "done"
            /\ ~Res.success /\ Res.failure_kind = Some("GENERIC_ERROR")
            /\ Res.failure_reason = Some(<<"Missing id or text">>)
            /\ NoResolutionAttempted /\ obs.fills = 0
       ELSE /\ pc \in {"while", "refresh", "probe", "backoff", "resolved", "hung",
                     "done", "raised"}
            /\ pc \in {"done", "raised"} =>
                   /\ ResolutionAttempted
                   /\ pc = "done" => Res.failure_reason # Some(<<"Missing id or text">>)

C8_Witness ==
    /\ Returned /\ Cmd.action_type = "TYPE" /\ Cmd.text_content = Some(<< >>)
    /\ obs.passes > 0 /\ obs.fills = 1

\* C9: a Navigate never resolves, never calls the perception callback and
\* never writes the store; without a url it returns GENERIC_ERROR and goto is
\* not called; otherwise goto is called exactly once, with a timeout of
\* 20 000 ms, and (no read of page.url raising) the result is GENERIC_ERROR
\* with url_after the page URL after the attempt when goto raised, and a
\* success with progress_signal "navigation" when it did not.
C9_Navigate ==
    (Entered /\ Cmd.action_type = "NAVIGATE")
    => /\ obs.refreshes = 0 /\ obs.passes = 0 /\ ~Probed /\ ~obs.store_changed
       /\ obs.sleeps = << >> /\ obs.gotos <= 1
       /\ IF Cmd.url = None \/ Cmd.url = Some(<< >>)
          THEN /\ pc = "done" /\ obs.gotos = 0
               /\ ~Res.success /\ Res.failure_kind = Some("GENERIC_ERROR")
          ELSE /\ pc \in {"goto", "done", "raised"}
               /\ pc = "goto" => obs.gotos = 0
               /\ pc \in {"done", "raised"} =>
                      obs.gotos = 1 /\ obs.timeout_ms = Some(20000)
               /\ (pc = "done" /\ ~obs.url_raised) =>
                      /\ Res.url_after = Some(pageUrl)
                      /\ IF obs.action_raised
                         THEN ~Res.success /\ Res.failure_kind = Some("GENERIC_ERROR")
                         ELSE Res.success /\ Res.progress_signal = Some(<<"navigation">>)

C9_Witness ==
    /\ Returned /\ Cmd.action_type = "NAVIGATE" /\ obs.action_raised
    /\ ~obs.url_raised /\ Res.url_after # initial_url


\* text with every occurrence of every registered placeholder replaced by
\* that placeholder's value, the values themselves left as registered
RECURSIVE ReplacedAtOnce(_, _)
ReplacedAtOnce(text, store) ==
    IF text = << >> THEN << >>
    ELSE LET hits == {i \in 1..Len(store) :
                        /\ Len(store[i].key) <= Len(text)
                        /\ SubSeq(text, 1, Len(store[i].key)) = store[i].key}
         IN  IF hits = {}
             THEN <<text[1]>> \o ReplacedAtOnce(Tail(text), store)
             ELSE LET i == CHOOSE h \in hits : \A g \in hits : h <= g
                  IN  store[i].val
                      \o ReplacedAtOnce(SubSeq(text, Len(store[i].key) + 1, Len(text)),
                                        store)

\* C10: the text a Type passes to fill is its text_content with every
\* occurrence of every registered placeholder replaced by that placeholder's
\* registered value, whatever the registered secrets are.
C10_FillGetsRegisteredValues ==
    (Running /\ Cmd.action_type = "TYPE" /\ obs.fills = 1)
    => obs.filled = Some(ReplacedAtOnce(Get(Cmd.text_content), secrets))


\* the string fields of a result
ResultTexts(r) ==
    {Get(f) : f \in {r.element_id, r.url_after, r.progress_signal, r.failure_reason}
                     \ {None}}

\* the values of the registered secrets whose placeholder the text holds
SecretsTyped(text, store) ==
    {store[i].val : i \in {j \in 1..Len(store) : Contains(store[j].key, text)}}

\* C11: no field of the result of a Type holds the value of a registered
\* secret whose placeholder the command's text_content held, on success and
\* on every failure.
C11_NoSecretInResult ==
    (Returned /\ Cmd.action_type = "TYPE" /\ obs.fills = 1)
    => \A v \in SecretsTyped(Get(Cmd.text_content), secrets) :
           \A t \in ResultTexts(Res) : ~Contains(v, t)


\* a resolution has just returned a locator, and an earlier resolution of the
\* same element_id against the same store contents returned one too
ResolvedAgain ==
    /\ pc = "resolved" /\ resolved.locator # None
    /\ history.resolution # None
    /\ Get(history.resolution).element_id = Get(Cmd.element_id)
    /\ Get(history.resolution).store = element_map

AnsweredAlike ==
    /\ Get(history.resolution).role_raised = obs.role_raised
    /\ Get(history.resolution).position = idx

SameCommand == Running /\ command' = command

C13_Entry == (command = None /\ command' # None) => deadline' = now + 20
C13_Kept == SameCommand => deadline' = deadline
C13_Sleep ==
    (SameCommand /\ obs'.sleeps # obs.sleeps)
    => now + obs'.sleeps[Len(obs'.sleeps)] <= deadline
C13_ActionTimeout ==
    (SameCommand /\ (obs'.clicks = obs.clicks + 1 \/ obs'.fills = obs.fills + 1))
    => obs'.timeout_ms = Some(IF deadline > now THEN (deadline - now) * 1000 ELSE 0)

\* C13: the deadline is set at the command's entry to the entry time plus 20
\* seconds and no later step changes it; a backoff sleep is made only if it
\* ends by the deadline, and the timeout passed to click or fill is the time
\* from the call to the deadline, 0 when the deadline has passed.
C13_OneDeadline ==
    [][C13_Entry /\ C13_Kept /\ C13_Sleep /\ C13_ActionTimeout]_vars

\* a click made after two backoff sleeps with part of the budget left
C13_Witness ==
    /\ Returned /\ obs.clicks = 1 /\ obs.sleeps = <<1, 2>>
    /\ obs.timeout_ms = Some(17000)


\* C14: in every successful Click result, progress_signal is "url_change"
\* exactly when the result's url_after differs from the URL read at the
\* command's entry, and "click_success" otherwise, whatever the page URL does
\* while the result is built.
C14_SignalMatchesUrlAfter ==
    (Returned /\ Cmd.action_type = "CLICK" /\ Res.success)
    => /\ Res.progress_signal \in {Some(<<"url_change">>), Some(<<"click_success">>)}
       /\ Res.progress_signal = Some(<<"url_change">>) <=> Res.url_after # initial_url


\* C15: for a Click whose element resolved (no read of page.url raising), a
\* click call that times out gives TIMEOUT_OR_STUCK with reason "Click timed
\* out", a click call that raises anything else gives GENERIC_ERROR, and both
\* results carry the element_id and the locator_kind that resolved.
C15_ClickFailure ==
    (/\ Returned /\ Cmd.action_type = "CLICK" /\ obs.clicks = 1
     /\ obs.action_raised /\ ~obs.url_raised)
    => /\ ~Res.success
       /\ Res.element_id = Cmd.element_id
       /\ Res.locator_kind = resolved.strategy /\ Res.locator_kind # None
       /\ IF obs.action_timed_out
          THEN /\ Res.failure_kind = Some("TIMEOUT_OR_STUCK")
               /\ Res.failure_reason = Some(<<"Click timed out">>)
          ELSE Res.failure_kind = Some("GENERIC_ERROR")

C15_Witness ==
    /\ Returned /\ Cmd.action_type = "CLICK" /\ obs.clicks = 1
    /\ obs.action_timed_out /\ ~obs.url_raised
    /\ Res.locator_kind = Some("ARIA_ROLE")

\* C16: once the click call has completed without raising (and no read of
\* page.url raises), the Click result is a success whatever the settle wait
\* did: completed or raised.
C16_SettleNeverFails ==
    (/\ Returned /\ Cmd.action_type = "CLICK" /\ obs.clicks = 1
     /\ ~obs.action_raised /\ ~obs.url_raised)
    => /\ Res.success /\ Res.failure_kind = None /\ Res.failure_reason = None
       /\ Res.element_id = Cmd.element_id /\ Res.locator_kind = resolved.strategy

C16_Witness ==
    /\ Returned /\ Cmd.action_type = "CLICK" /\ obs.clicks = 1
    /\ obs.settle_raised /\ Res.success

\* C17: for a Type whose element resolved (no read of page.url raising), a
\* fill that times out gives TIMEOUT_OR_STUCK with reason "Type timed out", a
\* fill that raises anything else gives GENERIC_ERROR, and a fill that
\* completes gives a success with progress_signal "input_filled" and the
\* locator_kind that resolved.
C17_FillOutcome ==
    (Returned /\ Cmd.action_type = "TYPE" /\ obs.fills = 1 /\ ~obs.url_raised)
    => IF ~obs.action_raised
       THEN /\ Res.success /\ Res.progress_signal = Some(<<"input_filled">>)
            /\ Res.locator_kind = resolved.strategy /\ Res.locator_kind # None
       ELSE /\ ~Res.success
            /\ IF obs.action_timed_out
               THEN /\ Res.failure_kind = Some("TIMEOUT_OR_STUCK")
                    /\ Res.failure_reason = Some(<<"Type timed out">>)
               ELSE Res.failure_kind = Some("GENERIC_ERROR")

C17_Witness ==
    /\ Returned /\ Cmd.action_type = "TYPE" /\ obs.fills = 1
    /\ obs.action_raised /\ ~obs.action_timed_out
    /\ Res.failure_kind = Some("GENERIC_ERROR")


\* C18: no result has failure_kind UNSUPPORTED_SURFACE or SECURITY_BLOCK; the
\* failure_kind of a failed result is TIMEOUT_OR_STUCK, AMBIGUOUS_LOCATOR or
\* GENERIC_ERROR.
C18_OnlyThreeKinds ==
    Returned
    => /\ Res.failure_kind \notin {Some("UNSUPPORTED_SURFACE"), Some("SECURITY_BLOCK")}
       /\ ~Res.success => Res.failure_kind \in {Some("TIMEOUT_OR_STUCK"),
                              Some("AMBIGUOUS_LOCATOR"), Some("GENERIC_ERROR")}

C18_Witness ==
    /\ Returned /\ Cmd.action_type = "TYPE" /\ obs.passes > 0
    /\ resolved.locator = None /\ Res.failure_kind = Some("TIMEOUT_OR_STUCK")


\* the store holds exactly the snapshot: its keys are the snapshot's
\* element_ids and each key maps to a descriptor of the snapshot with that id
HoldsExactly(map, elements) ==
    /\ DOMAIN map = {elements[i].element_id : i \in 1..Len(elements)}
    /\ \A id \in DOMAIN map :
         \E i \in 1..Len(elements) : elements[i].element_id = id /\ map[id] = elements[i]

\* C19: after every store update, by update_map or by a perception refresh,
\* the store holds exactly the latest snapshot and nothing of an earlier one;
\* applying the same snapshot again leaves the same store.
C19_StoreIsLatestSnapshot ==
    IF history.snapshot = None THEN element_map = << >>
    ELSE HoldsExactly(element_map, Get(history.snapshot))

\* a refresh made during a command replaced a store that held e1 by a
\* snapshot without it
C19_Witness ==
    /\ Running /\ obs.refreshes > 0 /\ obs.store_changed
    /\ obs.passes > 0 /\ DOMAIN element_map = {E2}


\* C20: every execute_command call produces a result, and during one call
\* click, fill and goto together are called at most once, each only by the
\* command of its kind.
C20_OneResultOneAction ==
    /\ pc \in {"done", "raised"} => result # None
    /\ Running =>
         /\ obs.clicks + obs.fills + obs.gotos <= 1
         /\ obs.clicks = 1 => Cmd.action_type = "CLICK"
         /\ obs.fills = 1 => Cmd.action_type = "TYPE"
         /\ obs.gotos = 1 => Cmd.action_type = "NAVIGATE"


\* C21: every command ends: no click or fill call is left waiting without a
\* timeout to end it, the case of a remaining budget of zero included.  (The
\* command that ends is the eventual part of the claim; a call that waits
\* for ever is the finite run that refutes it.)
C21_NoCallWaitsForEver == pc # "hung"


\* the resolver has just been entered and found the command's id absent
AbsentAtStart == pc = "refresh" /\ attempt = 0 /\ obs.passes = 0

\* the step that follows: the refresh and the decision
C22_Step ==
    (AbsentAtStart /\ ~obs'.perception_raised)
    => LET id == Get(Cmd.element_id)
       IN  /\ obs.refreshes = 0 /\ obs'.refreshes = 1 /\ obs'.sleeps = << >>
           /\ ~obs'.saw_many /\ ~obs'.saw_miss
           /\ IF id \notin DOMAIN element_map'
              THEN /\ pc' = "resolved" /\ obs'.passes = 0
                   /\ resolved' = [strategy |-> None, locator |-> None,
                                   error |-> Some(<<"Element ID ">> \o id
                                        \o <<" not found in perception map.">>)]
              ELSE \/ /\ pc' = "probe" /\ obs'.passes = 1 /\ idx' = 1
                      /\ \E r \in BOOLEAN :
                           strategies' =
                               _get_locators_for_distilled_element(element_map'[id], r)
                   \/ obs'.construction_raised

\* C22: when the resolver starts with the command's element_id absent from
\* the store, it calls the perception callback once and replaces the store;
\* if the id is still absent it returns the not-found failure with no probe
\* and no sleep made, and if the id is now present it starts a pass over the
\* strategies of the new descriptor.
C22_RefreshOnceWhenAbsent == [][C22_Step]_vars

\* the refresh brought the id and the first pass has started
C22_Witness ==
    /\ Running /\ pc = "probe" /\ attempt = 0 /\ obs.refreshes = 1
    /\ obs.passes = 1 /\ obs.store_changed /\ Len(strategies) = 3


\* C23: a Click whose element_id is absent from the store after the refresh
\* too, no probe having counted more than one match, ends TIMEOUT_OR_STUCK
\* and not AMBIGUOUS_LOCATOR, whatever the element_id is made of.
C23_AbsentIdIsTimeout ==
    (/\ Returned /\ Cmd.action_type = "CLICK" /\ ~Falsy(Cmd.element_id)
     /\ resolved.locator = None /\ obs.refreshes > 0 /\ ~obs.saw_many
     /\ Get(Cmd.element_id) \notin DOMAIN element_map
     /\ NothingRaised)
    => /\ Res.failure_kind = Some("TIMEOUT_OR_STUCK")
       /\ Res.failure_kind # Some("AMBIGUOUS_LOCATOR")


\* a pass over the strategies starts in this step
PassStarts == SameCommand /\ obs'.passes = obs.passes + 1

C24_Bounded ==
    Running => /\ obs.passes <= 4
               /\ Len(obs.sleeps) <= 3
               /\ obs.sleeps = SubSeq(<<1, 2, 4>>, 1, Len(obs.sleeps))
C24_SleepThenRefresh ==
    (SameCommand /\ obs'.sleeps # obs.sleeps)
    => /\ Len(obs'.sleeps) = Len(obs.sleeps) + 1
       /\ obs'.refreshes = obs.refreshes + 1
       /\ now' >= now + obs'.sleeps[Len(obs'.sleeps)]
       /\ obs'.passes = obs.passes /\ obs'.passes = Len(obs.sleeps) + 1
C24_RetryPass ==
    PassStarts
    => /\ obs'.passes = Len(obs'.sleeps) + 1
       /\ obs'.refreshes >= Len(obs'.sleeps)
       /\ idx' = 1
       /\ \E r \in BOOLEAN :
            strategies' = _get_locators_for_distilled_element(
                              element_map'[Get(Cmd.element_id)], r)

\* C24: within one resolve the strategies are walked at most 4 times, the
\* sleeps made are 1 s, 2 s, 4 s in that order, every sleep is followed by a
\* perception refresh, and every pass after the first comes after one more
\* sleep and walks, from its first entry, the strategies generated from the
\* descriptor the store then holds.
C24_BoundedRetries ==
    [](C24_Bounded) /\ [][C24_SleepThenRefresh /\ C24_RetryPass]_vars

\* the fourth pass has started after the three sleeps
C24_Witness ==
    /\ Running /\ pc = "probe" /\ obs.passes = 4 /\ obs.sleeps = <<1, 2, 4>>
    /\ obs.refreshes = 3 /\ attempt = 3


\* the pass failed, retries are left, and the next sleep would end after the deadline
NextSleepOverruns ==
    /\ pc = "backoff" /\ attempt < 3
    /\ now + <<1, 2, 4>>[attempt + 1] > deadline

C25_Step ==
    /\ (SameCommand /\ NextSleepOverruns)
       => /\ pc' = "resolved" /\ now' = now
          /\ obs'.sleeps = obs.sleeps /\ obs'.refreshes = obs.refreshes
          /\ element_map' = element_map
          /\ resolved'.locator = None
          /\ resolved'.error =
                 Some(IF found_ambiguous
                      THEN <<"Ambiguous locator found (matches ">> \o Multiple
                               \o <<" elements): ">> \o Get(last_ambiguous_selector)
                      ELSE <<"Could not resolve valid locator after retries.">>)
    /\ (SameCommand /\ pc = "backoff" /\ ~NextSleepOverruns /\ attempt < 3)
       => obs'.sleeps = Append(obs.sleeps, <<1, 2, 4>>[attempt + 1])

\* C25: the resolver starts a backoff sleep only if the sleep ends by the
\* deadline; when the time plus the next delay is past the deadline it
\* returns its terminal classification at once, with no sleep and no refresh.
C25_NoSleepPastDeadline == [][C25_Step]_vars

\* the second sleep was given up with time still left
C25_Witness ==
    /\ Running /\ pc = "resolved" /\ resolved.locator = None
    /\ attempt = 2 /\ obs.sleeps = <<1>> /\ now < deadline


\* the resolver has returned a locator and the command has not used it yet
LocatorReturned == Running /\ pc = "resolved" /\ resolved.locator # None

\* the strategies of the pass are probed one at a time, in list order: while
\* the for loop runs, answer j is the answer to strategies[j]
C26_InOrder ==
    (Running /\ pc = "probe") => Len(history.answers) = idx - 1
\* the returned strategy is the earliest of the pass that probed unique and
\* visible, in the list the generator built for the stored descriptor
C26_FirstVisible ==
    LocatorReturned
    => LET a == history.answers
           el == element_map[Get(Cmd.element_id)]
       IN  /\ strategies = _get_locators_for_distilled_element(el, obs.role_raised)
           /\ idx \in 1..Len(strategies) /\ Len(a) = idx
           /\ a[idx] = "visible"
           /\ \A j \in 1..(idx - 1) : a[j] # "visible"
           /\ resolved = [strategy |-> Some(strategies[idx].strategy),
                          locator |-> Some(strategies[idx].loc), error |-> None]
\* a probe leaves the list of the pass as it is; the probe that returns takes
\* no sleep and makes no refresh
C26_ProbeStep ==
    (SameCommand /\ pc = "probe")
    => /\ strategies' = strategies
       /\ obs'.sleeps = obs.sleeps /\ obs'.refreshes = obs.refreshes
       /\ obs'.passes = obs.passes /\ element_map' = element_map
\* after the return nothing more is probed, slept or refreshed
C26_NothingAfter ==
    (SameCommand /\ resolved.locator # None)
    => /\ pc' \notin {"while", "refresh", "probe", "backoff"}
       /\ resolved' = resolved
       /\ idx' = idx /\ strategies' = strategies
       /\ obs'.sleeps = obs.sleeps /\ obs'.refreshes = obs.refreshes
       /\ obs'.passes = obs.passes
       /\ obs'.saw_many = obs.saw_many /\ obs'.saw_miss = obs.saw_miss

\* C26: within one pass the resolver probes the strategies in generator order
\* and returns at the first one whose probe finds exactly one match that is
\* visible: the returned strategy is the earliest of the list that probed
\* unique and visible in that pass, and after it no later strategy is probed,
\* no sleep is taken and no refresh is made.
C26_FirstVisibleWins ==
    /\ [](C26_InOrder /\ C26_FirstVisible)
    /\ [][C26_ProbeStep /\ C26_NothingAfter]_vars

\* the third strategy of a second pass is returned after an ambiguous and a
\* hidden probe
C26_Witness ==
    /\ LocatorReturned /\ idx = 3 /\ obs.passes = 2
    /\ history.answers = <<"many", "hidden", "visible">>


\* the resolver has ended with the text of the ambiguous classification
AmbiguousEnd ==
    /\ Running /\ pc = "resolved" /\ resolved.error # None
    /\ Get(resolved.error)[1] = "Ambiguous locator found (matches "

\* C27: when the resolver ends with the ambiguous classification, the selector
\* named in its failure text is the one of the most recent probe, across all
\* passes of that resolve call, that observed more than one match: the last
\* observed wins, earlier ambiguous selectors are overwritten.
C27_LastAmbiguousSelectorNamed ==
    AmbiguousEnd
    => /\ resolved.locator = None /\ resolved.strategy = None
       /\ history.last_many # None
       /\ resolved.error = Some(MsgAmbiguous(Get(history.last_many)))

\* the last pass saw several matches at its first and at its third strategy,
\* and the text names the third
C27_Witness ==
    /\ AmbiguousEnd /\ obs.passes = 2
    /\ history.answers = <<"many", "hidden", "many">>
    /\ strategies[1].loc # strategies[3].loc
    /\ resolved.error = Some(MsgAmbiguous(strategies[3].loc))


\* a pass is under way: strategies is what line 130 built for the stored
\* descriptor of the command's element
PassUnderWay == Running /\ pc = "probe"
PassElement == element_map[Get(Cmd.element_id)]

KindRank(kind) ==
    CASE kind = "DISTILLED_ID" -> 1 [] kind = "TEST_ID" -> 2 [] kind = "ARIA_ROLE" -> 3
      [] kind = "TEXT" -> 4 [] kind = "CSS" -> 5
OfKind(list, kind) == SelectSeq(list, LAMBDA s : s.strategy = kind)
LocsOf(list) == [i \in 1..Len(list) |-> list[i].loc]
Carries(element, keys) ==
    element.attributes # None /\ DOMAIN Get(element.attributes) \cap keys # {}

C28_KindOrder ==
    \A i, j \in 1..Len(strategies) :
        i < j => KindRank(strategies[i].strategy) <= KindRank(strategies[j].strategy)
C28_KindNeedsField ==
    LET el == PassElement
        kinds == {strategies[i].strategy : i \in 1..Len(strategies)}
    IN  /\ "DISTILLED_ID" \in kinds => Carries(el, {"data-mark-id", "data-element-id", "id"})
        /\ "TEST_ID" \in kinds => Carries(el, {"data-testid", "data-test", "data-qa"})
        /\ "ARIA_ROLE" \in kinds => (el.role # None /\ Get(el.role) # << >>)
        /\ "TEXT" \in kinds => (el.text # None /\ Get(el.text) # << >>)
        /\ "CSS" \in kinds => (el.selector_hints # None /\ Get(el.selector_hints) # << >>)
C28_TextExactFirst ==
    LET el == PassElement
        texts == LocsOf(OfKind(strategies, "TEXT"))
    IN  texts # << >>
        => texts = << <<"text=">> \o Get(el.text) \o <<" exact">>,
                      el.tag_name \o <<" has_text=">> \o Get(el.text) >>
C28_CssInHintOrder ==
    LET el == PassElement
        css == LocsOf(OfKind(strategies, "CSS"))
    IN  css = IF el.selector_hints = None THEN << >> ELSE Get(el.selector_hints)

\* C28: for every descriptor the strategy list of the generator is ordered by
\* kind DISTILLED_ID, TEST_ID, ARIA_ROLE, TEXT, CSS (no strategy of a later
\* kind precedes one of an earlier kind); a kind appears only if the
\* descriptor carries its field; TEXT contributes the exact-text variant
\* before the tag-containing-text variant; CSS strategies appear in the order
\* of selector_hints.
C28_StrategyListOrder ==
    PassUnderWay
    => /\ C28_KindOrder /\ C28_KindNeedsField
       /\ C28_TextExactFirst /\ C28_CssInHintOrder

\* a list with all five kinds, two TEXT and two CSS strategies
C28_Witness ==
    /\ PassUnderWay
    /\ {strategies[i].strategy : i \in 1..Len(strategies)} = LocatorStrategy
    /\ Len(OfKind(strategies, "TEXT")) = 2
    /\ LocsOf(OfKind(strategies, "CSS")) = << <<".b">>, <<".a">> >>

FirstOf(keys, present) ==
    LET at == CHOOSE i \in 1..Len(keys) :
                  keys[i] \in present /\ \A j \in 1..(i - 1) : keys[j] \notin present
    IN  keys[at]
AttrsOf(element) == IF element.attributes = None THEN << >> ELSE Get(element.attributes)

C29_OneDistilledId ==
    LET attrs == AttrsOf(PassElement)
        order == <<"data-mark-id", "data-element-id", "id">>
        ids == LocsOf(OfKind(strategies, "DISTILLED_ID"))
    IN  IF Carries(PassElement, {"data-mark-id", "data-element-id", "id"})
        THEN LET key == FirstOf(order, DOMAIN attrs)
             IN  ids = << <<"[", key, "='">> \o attrs[key] \o <<"']">> >>
        ELSE ids = << >>
C29_EveryTestId ==
    LET attrs == AttrsOf(PassElement)
        tests == LocsOf(OfKind(strategies, "TEST_ID"))
        present == {"data-testid", "data-test", "data-qa"} \cap DOMAIN attrs
    IN  /\ Len(tests) = Cardinality(present)
        /\ \A key \in present :
             \E i \in 1..Len(tests) : tests[i] = <<"[", key, "='">> \o attrs[key] \o <<"']">>

\* C29: for every descriptor the generator emits at most one DISTILLED_ID
\* strategy, built from the first attribute present in the preference order
\* data-mark-id, data-element-id, id (later ones are ignored once one is
\* found), and emits one TEST_ID strategy for each of data-testid, data-test,
\* data-qa that is present, all of them.
C29_OneIdEveryTestId ==
    PassUnderWay => (C29_OneDistilledId /\ C29_EveryTestId)

\* a descriptor with data-element-id and id but no data-mark-id, and all three
\* test attributes
C29_Witness ==
    /\ PassUnderWay
    /\ DOMAIN AttrsOf(PassElement) =
           {"data-element-id", "id", "data-testid", "data-test", "data-qa"}
    /\ Len(OfKind(strategies, "DISTILLED_ID")) = 1
    /\ Len(OfKind(strategies, "TEST_ID")) = 3


\* C30: strategy generation never fails a resolution: an invalid or
\* unsupported role, or a malformed selector hint, causes only that strategy
\* to be skipped, and the remaining strategies of the descriptor are still
\* generated and probed in the same pass.  Here: no command is ended by an
\* exception of a locator constructor of the generator.
C30_GenerationNeverFailsResolution ==
    (Running /\ obs.construction_raised)
    => (pc = "probe" /\ strategies # << >>)


\* the descriptor the snapshot gives for an id: the last element of that id
HasId(elements, id) == \E i \in 1..Len(elements) : elements[i].element_id = id
DescriptorIn(elements, id) ==
    LET at == CHOOSE i \in 1..Len(elements) :
                  /\ elements[i].element_id = id
                  /\ \A j \in (i + 1)..Len(elements) : elements[j].element_id # id
    IN  elements[at]

\* while a pass walks its strategies, they are the ones of the descriptor
\* that the latest snapshot gives for the command's element
C31_SingleSnapshot ==
    (Running /\ pc = "probe" /\ history.snapshot # None)
    => LET latest == Get(history.snapshot)
           id == Get(Cmd.element_id)
       IN  /\ HasId(latest, id)
           /\ HoldsExactly(element_map, latest)
           /\ strategies =
                  _get_locators_for_distilled_element(DescriptorIn(latest, id),
                                                      obs.role_raised)
\* a step of the walk makes no refresh and leaves the store and the list alone
C31_WalkStep ==
    (SameCommand /\ pc = "probe")
    => /\ element_map' = element_map /\ strategies' = strategies
       /\ obs'.refreshes = obs.refreshes
\* a refresh is over before the pass that follows it builds its list: the
\* step that refreshes probes nothing, and the list it builds is the one of
\* the store as the refresh left it
C31_RefreshStep ==
    (SameCommand /\ obs'.refreshes = obs.refreshes + 1)
    => /\ pc \in {"refresh", "backoff"}
       /\ obs'.saw_many = obs.saw_many /\ obs'.saw_miss = obs.saw_miss
       /\ resolved'.locator = None
       /\ pc' = "probe"
          => \E r \in BOOLEAN :
                strategies' = _get_locators_for_distilled_element(
                                  element_map'[Get(Cmd.element_id)], r)

\* C31: every perception refresh strictly precedes the pass that uses it, and
\* the store is not modified while a pass walks its strategies: each pass
\* works on the descriptor of a single snapshot, the latest one, and never on
\* a mix of descriptors from an older and a newer snapshot.
C31_RefreshPrecedesPass ==
    /\ [](C31_SingleSnapshot)
    /\ [][C31_WalkStep /\ C31_RefreshStep]_vars

\* a second pass walks the list of a descriptor that a refresh replaced
C31_Witness ==
    /\ Running /\ pc = "probe" /\ obs.passes = 2 /\ obs.refreshes = 1
    /\ obs.store_changed /\ idx = 2 /\ Len(strategies) = 1
    /\ history.snapshot # None
    /\ Len(Get(history.snapshot)) = 2


\* a step of execute_command: its entry, a step inside it, or its return
CommandStep == pc # "idle" \/ pc' # "idle"

C32_SecretsKept == CommandStep => secrets' = secrets
\* the store changes only by update_map: called by the caller between
\* commands, or by the resolver with what a refresh returned
C32_StoreSwappedOnly ==
    element_map' # element_map
    => \/ ~CommandStep
       \/ SameCommand /\ obs'.refreshes = obs.refreshes + 1 /\ obs'.store_changed
\* every stored descriptor is one that perception supplied, as supplied,
\* under its own id
C32_DescriptorsAsSupplied ==
    \A id \in DOMAIN element_map :
        element_map[id] \in Elements /\ element_map[id].element_id = id

\* C32: execute_command leaves the Secret Store unchanged for every command
\* and outcome (only register_secret writes it), and the engine never
\* modifies a field of any descriptor: the only change to descriptor state is
\* replacing the whole map through update_map.
C32_StoresFramed ==
    /\ [](C32_DescriptorsAsSupplied)
    /\ [][C32_SecretsKept /\ C32_StoreSwappedOnly]_vars

\* a Type that substituted a registered secret has returned, after a refresh
\* that changed the store
C32_Witness ==
    /\ Returned /\ Res.success /\ Cmd.action_type = "TYPE"
    /\ secrets # << >> /\ obs.filled = Some(<<"s">>)
    /\ obs.store_changed /\ obs.refreshes > 0


\* the step probed a strategy and the page gave this answer
Answered(outcome) ==
    /\ SameCommand /\ pc = "probe"
    /\ Len(history'.answers) = Len(history.answers) + 1
    /\ history'.answers[Len(history'.answers)] = outcome

\* the step left the resolver as a non-match does: the walk goes on with the
\* next strategy, nothing is returned, no ambiguity is recorded
MovesOn ==
    /\ pc' = "probe" /\ idx' = idx + 1 /\ strategies' = strategies
    /\ resolved' = resolved /\ resolved.locator = None /\ resolved.error = None
    /\ result' = None /\ attempt' = attempt
    /\ found_ambiguous' = found_ambiguous
    /\ last_ambiguous_selector' = last_ambiguous_selector
    /\ obs'.saw_many = obs.saw_many /\ obs'.sleeps = obs.sleeps
    /\ obs'.refreshes = obs.refreshes /\ element_map' = element_map

C33_Step == Answered("raise") => MovesOn

\* C33: an exception raised by a count or is_visible probe of one strategy is
\* swallowed and treated like a non-match of that strategy only: it records
\* no ambiguity, the remaining strategies of the pass are still probed, and
\* the resolve call does not end because of it.
C33_ProbeExceptionSwallowed == [][C33_Step]_vars

\* two probes raised and the third strategy of the pass was returned, with no
\* ambiguity on record
C33_Witness ==
    /\ LocatorReturned /\ idx = 3
    /\ history.answers = <<"raise", "raise", "visible">>
    /\ ~found_ambiguous /\ last_ambiguous_selector = None


\* C34: a strategy that matches exactly one element that is not visible is
\* neither a success nor an ambiguity: the resolver moves on to the next
\* strategy, and if in every pass every strategy matches zero elements or one
\* invisible element the command ends as TIMEOUT_OR_STUCK.  Here, the second
\* half, for calls in which perception and page.url do not raise: a command
\* that returns after at least one pass, with every probe answered by no
\* match or by one invisible match, returns TIMEOUT_OR_STUCK.
C34_NeverVisibleIsTimeout ==
    (/\ Returned /\ NothingRaised /\ obs.passes > 0 /\ obs.saw_miss
     /\ ~obs.saw_many /\ resolved.locator = None)
    => Res.failure_kind = Some("TIMEOUT_OR_STUCK")


\* a probe that finds one visible match after an ambiguity was recorded
\* returns its strategy and locator with no error
C35_Step ==
    (Answered("visible") /\ found_ambiguous)
    => /\ pc' = "resolved"
       /\ resolved' = [strategy |-> Some(strategies[idx].strategy),
                       locator |-> Some(strategies[idx].loc), error |-> None]
\* and whatever the command then returns is not the ambiguous classification
C35_NotReportedAmbiguous ==
    (Running /\ obs.saw_many /\ resolved.locator # None)
    => /\ found_ambiguous /\ resolved.error = None /\ resolved.strategy # None
       /\ result # None => Res.failure_kind # Some("AMBIGUOUS_LOCATOR")

\* C35: an ambiguity observed earlier does not prevent success: if some
\* strategy, in the same pass or an earlier one, matched more than one element
\* and a later-probed strategy matches exactly one visible element, the
\* resolver returns that strategy with no error and the command is not
\* reported as AMBIGUOUS_LOCATOR.
C35_AmbiguityDoesNotPreventSuccess ==
    /\ [](C35_NotReportedAmbiguous)
    /\ [][C35_Step]_vars

\* a Click succeeded on the first strategy of a second pass, after an earlier
\* pass saw several matches
C35_Witness ==
    /\ Returned /\ Res.success /\ obs.saw_many /\ found_ambiguous
    /\ obs.passes = 2 /\ idx = 1 /\ obs.clicks = 1


RECURSIVE SumOf(_)
SumOf(seq) == IF seq = << >> THEN 0 ELSE Head(seq) + SumOf(Tail(seq))

\* C37: within one execute_command call the perception callback is invoked at
\* most 7 times (at most one absent-id refresh at the start of each of the at
\* most 4 passes plus one refresh after each of the at most 3 backoff sleeps),
\* and the total backoff sleep time is at most 7 seconds.
C37_RefreshAndSleepBounds ==
    Running => /\ obs.refreshes <= 7
               /\ obs.refreshes <= obs.passes + Len(obs.sleeps) + 1
               /\ SumOf(obs.sleeps) <= 7

\* seven refreshes and seven seconds of sleep in one call: the id was absent
\* at the start of each of four passes
C37_Witness ==
    /\ Running /\ obs.refreshes = 7 /\ obs.passes = 4
    /\ obs.sleeps = <<1, 2, 4>> /\ SumOf(obs.sleeps) = 7


\* a fill has been given its text, and the fill before it was asked the same
\* text_content under the same set of registered pairs
DeliveredAgain ==
    /\ Running /\ obs.filled # None /\ history.delivery # None
    /\ Get(history.delivery).text_content = Get(Cmd.text_content)
    /\ Get(history.delivery).pairs = SecretPairs(secrets)

\* C38: the text delivered to fill by a Type command does not depend on the
\* order in which the secrets were registered: for the same text_content and
\* the same set of (placeholder, value) pairs, every registration order
\* yields the same delivered text.
C38_OrderIndependentDelivery ==
    DeliveredAgain => Get(history.delivery).delivered = Get(obs.filled)


\* C39: click and fill are never invoked once the command's deadline has
\* passed: whenever the resolver hands back a locator, the time remaining
\* until the deadline at the moment the action is called is strictly
\* positive, so the action is never called with a timeout of 0.
C39_ActionWithinDeadline ==
    (Running /\ Cmd.action_type \in {"CLICK", "TYPE"} /\ obs.timeout_ms # None)
    => Get(obs.timeout_ms) > 0

=============================================================================
